---- MODULE Spec2Model ----
(***************************************************************************)
(* A model of the broadcast hub of server/server.go: the subscriber        *)
(* registry guarded by subscribersMu, publish (the fan-out pass), the      *)
(* subscribe session (register, handshake, write loop, deferred teardown), *)
(* the listen/echo read loop, the closeSlow callback and publishHandler.   *)
(*                                                                         *)
(* Every goroutine is a task with a program counter.  A task that blocks   *)
(* in the code (a mutex, a limiter, a channel, the network) is modelled by *)
(* an action whose guard is the condition that unblocks it.  Statements of *)
(* one goroutine that touch no shared state are one step with the shared   *)
(* access they follow.                                                     *)
(***************************************************************************)
EXTENDS Naturals, Sequences, FiniteSets, TLC

\* ---- bounds of the model ------------------------------------------------
NumSessions == 2      \* calls of subscribe (connections), numbered as they arrive
NumRequests == 1      \* requests to /publish, numbered as they arrive
MaxFrames == 1        \* frames the connections' read loops receive, in total
\* The server's fields, scaled down so that a full queue and an empty
\* bucket are reached with few messages.
subscriberMessageBuffer == 1   \* server.go:50 sets 16
publishBurst == 1              \* server.go:53 sets a burst of 8

\* ---- program constants --------------------------------------------------
maxBodyBytes == 8192

Sess == 1..NumSessions
Reqs == 1..NumRequests
LTask(s) == <<"listen", s>>
HTask(r) == <<"http", r>>
Listeners == {LTask(s) : s \in Sess}
Handlers == {HTask(r) : r \in Reqs}
Tasks == Listeners \cup Handlers
Free == <<"free", 0>>
NoMsg == [src |-> Free, n |-> 0, len |-> 0]

\* the requests to /publish: the method, the length of the body, and whether
\* reading the body fails for another reason than its length (the client
\* aborts, the chunked encoding is malformed)
Requests ==
  { [method |-> "GET", len |-> maxBodyBytes, readFails |-> FALSE],
    [method |-> "POST", len |-> maxBodyBytes, readFails |-> FALSE],
    [method |-> "POST", len |-> maxBodyBytes + 1, readFails |-> FALSE],
    [method |-> "POST", len |-> maxBodyBytes, readFails |-> TRUE] }
NoReq == [method |-> "", len |-> 0, readFails |-> FALSE]
FrameLens == {5}

VARIABLES
  subscribers,    \* gameServer.subscribers: the set of registered subscribers
  subscribersMu,  \* gameServer.subscribersMu: Free or the task holding it
  tokens,         \* tokens in gameServer.publishLimiter
  msgs,           \* subscriber.msgs: the buffered channel of each subscriber
  slow,           \* closeSlow goroutines started by publish and not yet run
  mu,             \* subscribe's mu: "free", or "closeSlow" while closeSlow holds it
  closed,         \* subscribe's closed flag
  c,              \* subscribe's c: TRUE once c = c2 was assigned
  conn,           \* the transport of c2: "none", "open", "closed"
  ctx,            \* subscribe's ctx: "none", "live", "done" (expired or cancelled)
  timer,          \* the deadline timer of ctx: "none", "armed", "released"
  pc,             \* where each call of subscribe is
  cur,            \* msg of the write loop: the payload received from s.msgs
  err,            \* the error subscribe returns
  frames,         \* frames the read loops have received
  tpc,            \* where each publishing task (listen goroutine, publishHandler) is
  tmsg,           \* msg of that task
  seen,           \* the subscribers publish's range loop has visited, with the
                  \* queue length each had when visited
  snap,           \* history: the registry when publish took subscribersMu
  req,            \* history: the request each call of publishHandler serves
  status,         \* the HTTP status publishHandler answered (0: none yet)
  sent,           \* history: the payloads c.Write transmitted, per session
  enqd,           \* history: the payloads publish put on s.msgs, per session
  handled,        \* history: the calls of game.HandleMsg, per task
  delCount        \* history: the calls of deleteSubscriber, per session

vars == <<subscribers, subscribersMu, tokens, msgs, slow, mu, closed, c, conn,
          ctx, timer, pc, cur, err, frames, tpc, tmsg, seen, snap,
          req, status, sent, enqd, handled, delCount>>

regVars == <<subscribers, subscribersMu, tokens>>
chanVars == <<msgs, slow, enqd>>
sessVars == <<mu, closed, c, conn, ctx, timer, pc, cur, err, sent, delCount>>
pubVars == <<frames, tpc, tmsg, seen, snap, req, status, handled>>

Empty == [x \in {} |-> 0]

Init ==
  /\ subscribers = {}
  /\ subscribersMu = Free
  /\ tokens = publishBurst
  /\ msgs = [s \in Sess |-> <<>>]
  /\ slow = [s \in Sess |-> 0]
  /\ mu = [s \in Sess |-> "free"]
  /\ closed = [s \in Sess |-> FALSE]
  /\ c = [s \in Sess |-> FALSE]
  /\ conn = [s \in Sess |-> "none"]
  /\ ctx = [s \in Sess |-> "none"]
  /\ timer = [s \in Sess |-> "none"]
  /\ pc = [s \in Sess |-> "idle"]
  /\ cur = [s \in Sess |-> NoMsg]
  /\ err = [s \in Sess |-> "none"]
  /\ frames = 0
  /\ tpc = [t \in Tasks |-> IF t \in Listeners THEN "none" ELSE "idle"]
  /\ tmsg = [t \in Tasks |-> NoMsg]
  /\ seen = [t \in Tasks |-> Empty]
  /\ snap = [t \in Tasks |-> {}]
  /\ req = [r \in Reqs |-> NoReq]
  /\ status = [r \in Reqs |-> 0]
  /\ sent = [s \in Sess |-> <<>>]
  /\ enqd = [s \in Sess |-> <<>>]
  /\ handled = [t \in Tasks |-> <<>>]
  /\ delCount = [s \in Sess |-> 0]

\* ---- the registry -------------------------------------------------------

\* a deleteSubscriber that empties the map
deleteSubscriberAll(s) ==
  /\ subscribersMu = Free
  /\ subscribers' = {}
  /\ UNCHANGED subscribersMu

\* a deleteSubscriber that leaves the map as it is
deleteSubscriberNot(s) ==
  /\ subscribersMu = Free
  /\ UNCHANGED <<subscribers, subscribersMu>>

\* addSubscriber: Lock; subscribers[s] = struct{}{}; Unlock
addSubscriber(s) ==
  /\ subscribersMu = Free
  /\ subscribers' = subscribers \cup {s}
  /\ UNCHANGED subscribersMu

\* deleteSubscriber: Lock; delete(subscribers, s); Unlock
deleteSubscriber(s) ==
  /\ subscribersMu = Free
  /\ subscribers' = subscribers \ {s}
  /\ UNCHANGED subscribersMu

\* ---- publish ------------------------------------------------------------

\* where a task continues when publish returns
AfterPublish(t) == IF t \in Listeners THEN "read" ELSE "ack"

\* a publish whose Lock does not wait for the pass that holds subscribersMu:
\* two passes run at once
publishLockShared(t) ==
  /\ tpc[t] = "lock"
  /\ subscribersMu' = t
  /\ tpc' = [tpc EXCEPT ![t] = "limit"]
  /\ snap' = [snap EXCEPT ![t] = subscribers]
  /\ seen' = [seen EXCEPT ![t] = Empty]
  /\ UNCHANGED <<subscribers, tokens, chanVars, sessVars, frames, tmsg,
                 req, status, handled>>

\* a publish that does not take subscribersMu
publishLockNot(t) ==
  /\ tpc[t] = "lock"
  /\ subscribersMu' = t
  /\ tpc' = [tpc EXCEPT ![t] = "limit"]
  /\ snap' = [snap EXCEPT ![t] = subscribers]
  /\ UNCHANGED <<subscribers, tokens, chanVars, sessVars, frames, tmsg, seen,
                 req, status, handled>>

\* cs.subscribersMu.Lock()
publishLock(t) ==
  /\ tpc[t] = "lock"
  /\ subscribersMu = Free
  /\ subscribersMu' = t
  /\ tpc' = [tpc EXCEPT ![t] = "limit"]
  /\ snap' = [snap EXCEPT ![t] = subscribers]
  /\ UNCHANGED <<subscribers, tokens, chanVars, sessVars, frames, tmsg, seen,
                 req, status, handled>>

\* cs.publishLimiter.Wait(context.Background()): blocks until a token is there
publishWait(t) ==
  /\ tpc[t] = "limit"
  /\ tokens > 0
  /\ tokens' = tokens - 1
  /\ tpc' = [tpc EXCEPT ![t] = "iter"]
  /\ UNCHANGED <<subscribers, subscribersMu, chanVars, sessVars, frames, tmsg,
                 seen, snap, req, status, handled>>

\* a send on a channel without bound: the default case is never taken
trySendUnbounded(s, m) ==
  /\ msgs' = [msgs EXCEPT ![s] = Append(@, m)]
  /\ enqd' = [enqd EXCEPT ![s] = Append(@, m)]
  /\ UNCHANGED slow

\* a select that takes a queue of subscriberMessageBuffer payloads for not full
trySendOffByOne(s, m) ==
  IF Len(msgs[s]) <= subscriberMessageBuffer
  THEN /\ msgs' = [msgs EXCEPT ![s] = Append(@, m)]
       /\ enqd' = [enqd EXCEPT ![s] = Append(@, m)]
       /\ UNCHANGED slow
  ELSE /\ slow' = [slow EXCEPT ![s] = @ + 1]
       /\ UNCHANGED <<msgs, enqd>>

\* a send s.msgs <- msg without the default case: it blocks on a full queue
trySendBlocking(s, m) ==
  /\ Len(msgs[s]) < subscriberMessageBuffer
  /\ msgs' = [msgs EXCEPT ![s] = Append(@, m)]
  /\ enqd' = [enqd EXCEPT ![s] = Append(@, m)]
  /\ UNCHANGED slow

\* the select of the range loop: case s.msgs <- msg, default: go s.closeSlow()
trySend(s, m) ==
  IF Len(msgs[s]) < subscriberMessageBuffer
  THEN /\ msgs' = [msgs EXCEPT ![s] = Append(@, m)]
       /\ enqd' = [enqd EXCEPT ![s] = Append(@, m)]
       /\ UNCHANGED slow
  ELSE /\ slow' = [slow EXCEPT ![s] = @ + 1]
       /\ UNCHANGED <<msgs, enqd>>

\* a range loop over every subscriber ever made, unregistered ones included
publishSendAny(t, s) ==
  /\ tpc[t] = "iter"
  /\ s \in subscribers \/ pc[s] = "closed"
  /\ s \notin DOMAIN seen[t]
  /\ trySend(s, tmsg[t])
  /\ seen' = [seen EXCEPT ![t] = (s :> Len(msgs[s])) @@ @]
  /\ UNCHANGED <<regVars, sessVars, frames, tpc, tmsg, snap, req, status, handled>>

\* one iteration of for s := range cs.subscribers
publishSend(t, s) ==
  /\ tpc[t] = "iter"
  /\ s \in subscribers
  /\ s \notin DOMAIN seen[t]
  /\ trySend(s, tmsg[t])
  /\ seen' = [seen EXCEPT ![t] = (s :> Len(msgs[s])) @@ @]
  /\ UNCHANGED <<regVars, sessVars, frames, tpc, tmsg, snap, req, status, handled>>

\* a publish that returns without the deferred Unlock
publishUnlockNot(t) ==
  /\ tpc[t] = "iter"
  /\ subscribers \subseteq DOMAIN seen[t]
  /\ tpc' = [tpc EXCEPT ![t] = AfterPublish(t)]
  /\ seen' = [seen EXCEPT ![t] = Empty]
  /\ snap' = [snap EXCEPT ![t] = {}]
  /\ UNCHANGED <<subscribers, subscribersMu, tokens, chanVars, sessVars, frames,
                 tmsg, req, status, handled>>

\* the range loop is over: the deferred cs.subscribersMu.Unlock()
publishUnlock(t) ==
  /\ tpc[t] = "iter"
  /\ subscribers \subseteq DOMAIN seen[t]
  /\ subscribersMu' = Free
  /\ tpc' = [tpc EXCEPT ![t] = AfterPublish(t)]
  /\ seen' = [seen EXCEPT ![t] = Empty]
  /\ snap' = [snap EXCEPT ![t] = {}]
  /\ UNCHANGED <<subscribers, tokens, chanVars, sessVars, frames, tmsg, req, status,
                 handled>>

\* the token bucket of publishLimiter refills with time; rate.Limiter works the
\* refill out when a caller asks for a token (it keeps the time of the last call)
publishRefill ==
  /\ \E t \in Tasks : tpc[t] = "limit"
  /\ tokens < publishBurst
  /\ tokens' = tokens + 1
  /\ UNCHANGED <<subscribers, subscribersMu, chanVars, sessVars, pubVars>>

\* ---- publishHandler -----------------------------------------------------

\* the outcome of the method test and of io.ReadAll(http.MaxBytesReader(..., 8192)):
\* the status of the early return, or 0 when the handler goes on
requestStatus(method, len, readFails) ==
  IF method # "POST" THEN 405
  ELSE IF len > maxBodyBytes \/ readFails THEN 413
  ELSE 0

\* a request arrives: the method test, the read of the body and
\* cs.game.HandleMsg(r.RemoteAddr, msg)
publishHandler(r) ==
  /\ tpc[HTask(r)] = "idle"
  /\ \A r2 \in Reqs : r2 < r => tpc[HTask(r2)] # "idle"
  /\ \E q \in Requests :
       LET st == requestStatus(q.method, q.len, q.readFails)
           m == [src |-> HTask(r), n |-> 1, len |-> q.len] IN
       /\ req' = [req EXCEPT ![r] = q]
       /\ IF st # 0
          THEN /\ status' = [status EXCEPT ![r] = st]
               /\ tpc' = [tpc EXCEPT ![HTask(r)] = "done"]
               /\ UNCHANGED <<tmsg, handled>>
          ELSE /\ tmsg' = [tmsg EXCEPT ![HTask(r)] = m]
               /\ handled' = [handled EXCEPT ![HTask(r)] =
                                Append(@, [usrid |-> HTask(r), msg |-> m])]
               /\ tpc' = [tpc EXCEPT ![HTask(r)] = "lock"]
               /\ UNCHANGED status
  /\ UNCHANGED <<regVars, chanVars, sessVars, frames, seen, snap>>

\* w.WriteHeader(http.StatusAccepted)
publishAccepted(r) ==
  /\ tpc[HTask(r)] = "ack"
  /\ status' = [status EXCEPT ![r] = 202]
  /\ tpc' = [tpc EXCEPT ![HTask(r)] = "done"]
  /\ UNCHANGED <<regVars, chanVars, sessVars, frames, tmsg, seen, snap, req,
                 handled>>

\* ---- closeSlow -----------------------------------------------------------

\* a goroutine started by go s.closeSlow(): mu.Lock(); closed = true
closeSlowLock(s) ==
  /\ slow[s] > 0
  /\ mu[s] = "free"
  /\ slow' = [slow EXCEPT ![s] = @ - 1]
  /\ mu' = [mu EXCEPT ![s] = "closeSlow"]
  /\ closed' = [closed EXCEPT ![s] = TRUE]
  /\ UNCHANGED <<regVars, msgs, enqd, c, conn, ctx, timer, pc, cur, err, sent,
                 delCount, pubVars>>

\* a closeSlow that returns without mu.Unlock()
closeSlowCloseKeepsMu(s) ==
  /\ mu[s] = "closeSlow"
  /\ conn[s] # "closed" \/ ~c[s]
  /\ conn' = [conn EXCEPT ![s] = IF c[s] THEN "closed" ELSE @]
  /\ UNCHANGED <<regVars, chanVars, mu, closed, c, ctx, timer, pc, cur, err, sent,
                 delCount, pubVars>>

\* if c != nil { c.Close(StatusPolicyViolation, ...) }; the deferred mu.Unlock()
closeSlowClose(s) ==
  /\ mu[s] = "closeSlow"
  /\ conn' = [conn EXCEPT ![s] = IF c[s] THEN "closed" ELSE @]
  /\ mu' = [mu EXCEPT ![s] = "free"]
  /\ UNCHANGED <<regVars, chanVars, closed, c, ctx, timer, pc, cur, err, sent,
                 delCount, pubVars>>

\* ---- subscribe ----------------------------------------------------------

\* subscribeHandler calls subscribe, which creates the subscriber
subscribeStart(s) ==
  /\ pc[s] = "idle"
  /\ \A s2 \in Sess : s2 < s => pc[s2] # "idle"
  /\ pc' = [pc EXCEPT ![s] = "add"]
  /\ UNCHANGED <<regVars, chanVars, mu, closed, c, conn, ctx, timer, cur, err, sent,
                 delCount, pubVars>>

\* cs.addSubscriber(s); defer cs.deleteSubscriber(s)
subscribeAdd(s) ==
  /\ pc[s] = "add"
  /\ addSubscriber(s)
  /\ pc' = [pc EXCEPT ![s] = "accept"]
  /\ UNCHANGED <<tokens, chanVars, mu, closed, c, conn, ctx, timer, cur, err, sent,
                 delCount, pubVars>>

\* c2, err := websocket.Accept(w, r, nil); if err != nil { return err }
subscribeAccept(s) ==
  /\ pc[s] = "accept"
  /\ \E ok \in BOOLEAN :
       IF ok
       THEN /\ conn' = [conn EXCEPT ![s] = "open"]
            /\ pc' = [pc EXCEPT ![s] = "chk"]
            /\ UNCHANGED err
       ELSE /\ err' = [err EXCEPT ![s] = "accept"]
            /\ pc' = [pc EXCEPT ![s] = "del"]
            /\ UNCHANGED conn
  /\ UNCHANGED <<regVars, chanVars, mu, closed, c, ctx, timer, cur, sent, delCount,
                 pubVars>>

\* a subscribe that does not test closed after the handshake
subscribeCheckNoTest(s) ==
  /\ pc[s] = "chk"
  /\ mu[s] = "free"
  /\ c' = [c EXCEPT ![s] = TRUE]
  /\ ctx' = [ctx EXCEPT ![s] = "live"]
  /\ timer' = [timer EXCEPT ![s] = "armed"]
  /\ tpc' = [tpc EXCEPT ![LTask(s)] = "read"]
  /\ pc' = [pc EXCEPT ![s] = "sel"]
  /\ UNCHANGED <<regVars, chanVars, mu, closed, conn, cur, err, sent, delCount,
                 frames, tmsg, seen, snap, req, status, handled>>

\* a subscribe whose deleteSubscriber is deferred after the handshake only:
\* the return of net.ErrClosed does not run it
subscribeCheckLateDefer(s) ==
  /\ pc[s] = "chk"
  /\ mu[s] = "free"
  /\ IF closed[s]
     THEN /\ err' = [err EXCEPT ![s] = "netErrClosed"]
          /\ pc' = [pc EXCEPT ![s] = "closed"]
          /\ UNCHANGED <<c, ctx, timer, tpc>>
     ELSE /\ c' = [c EXCEPT ![s] = TRUE]
          /\ ctx' = [ctx EXCEPT ![s] = "live"]
          /\ timer' = [timer EXCEPT ![s] = "armed"]
          /\ tpc' = [tpc EXCEPT ![LTask(s)] = "read"]
          /\ pc' = [pc EXCEPT ![s] = "sel"]
          /\ UNCHANGED err
  /\ UNCHANGED <<regVars, chanVars, mu, closed, conn, cur, sent, delCount, frames,
                 tmsg, seen, snap, req, status, handled>>

\* mu.Lock(); if closed { mu.Unlock(); return net.ErrClosed }; c = c2; mu.Unlock();
\* defer c.CloseNow(); ctx, cancel := context.WithTimeout(...); defer cancel();
\* l := rate.NewLimiter(...); go cs.listen(ctx, w, r, c, l)
subscribeCheck(s) ==
  /\ pc[s] = "chk"
  /\ mu[s] = "free"
  /\ IF closed[s]
     THEN /\ err' = [err EXCEPT ![s] = "netErrClosed"]
          /\ pc' = [pc EXCEPT ![s] = "del"]
          /\ UNCHANGED <<c, ctx, timer, tpc>>
     ELSE /\ c' = [c EXCEPT ![s] = TRUE]
          /\ ctx' = [ctx EXCEPT ![s] = "live"]
          /\ timer' = [timer EXCEPT ![s] = "armed"]
          /\ tpc' = [tpc EXCEPT ![LTask(s)] = "read"]
          /\ pc' = [pc EXCEPT ![s] = "sel"]
          /\ UNCHANGED err
  /\ UNCHANGED <<regVars, chanVars, mu, closed, conn, cur, sent, delCount, frames,
                 tmsg, seen, snap, req, status, handled>>

\* subscribe returns e from its loop; the deferred cancel() and c.CloseNow() run
\* (the deferred deleteSubscriber is the next step, it needs subscribersMu)
loopReturn(s, e) ==
  /\ err' = [err EXCEPT ![s] = e]
  /\ ctx' = [ctx EXCEPT ![s] = "done"]
  /\ timer' = [timer EXCEPT ![s] = "released"]
  /\ conn' = [conn EXCEPT ![s] = "closed"]
  /\ pc' = [pc EXCEPT ![s] = "del"]

\* a receive that leaves the payload on the queue
subscribeRecvPeek(s) ==
  /\ pc[s] = "sel"
  /\ msgs[s] # <<>>
  /\ cur' = [cur EXCEPT ![s] = Head(msgs[s])]
  /\ pc' = [pc EXCEPT ![s] = "write"]
  /\ UNCHANGED <<regVars, chanVars, mu, closed, c, conn, ctx, timer, err, sent,
                 delCount, pubVars>>

\* select: case msg := <-s.msgs
subscribeRecv(s) ==
  /\ pc[s] = "sel"
  /\ msgs[s] # <<>>
  /\ cur' = [cur EXCEPT ![s] = Head(msgs[s])]
  /\ msgs' = [msgs EXCEPT ![s] = Tail(@)]
  /\ pc' = [pc EXCEPT ![s] = "write"]
  /\ UNCHANGED <<regVars, slow, enqd, mu, closed, c, conn, ctx, timer, err, sent,
                 delCount, pubVars>>

\* a write loop whose select has no case <-ctx.Done()
subscribeDoneNot(s) ==
  /\ FALSE
  /\ UNCHANGED vars

\* select: case <-ctx.Done(): return ctx.Err()
subscribeDone(s) ==
  /\ pc[s] = "sel"
  /\ ctx[s] # "live"
  /\ loopReturn(s, "deadline")
  /\ UNCHANGED <<regVars, chanVars, mu, closed, c, cur, sent, delCount, pubVars>>

\* a write that sends the payload cut short
writeTimeoutCut(s) ==
  /\ pc[s] = "write"
  /\ \/ /\ conn[s] = "open"
        /\ ctx[s] = "live"
        /\ sent' = [sent EXCEPT ![s] = Append(@, [cur[s] EXCEPT !.len = 0])]
        /\ pc' = [pc EXCEPT ![s] = "sel"]
        /\ UNCHANGED <<err, ctx, timer, conn>>
     \/ /\ loopReturn(s, "write")
        /\ UNCHANGED sent
  /\ UNCHANGED <<regVars, chanVars, mu, closed, c, cur, delCount, pubVars>>

\* err := writeTimeout(ctx, time.Second*5, c, msg); if err != nil { return err }
\* c.Write sends msg as one text frame, or fails (the 5 s pass, the transport
\* is closed, ctx is done)
writeTimeout(s) ==
  /\ pc[s] = "write"
  /\ \/ /\ conn[s] = "open"
        /\ ctx[s] = "live"
        /\ sent' = [sent EXCEPT ![s] = Append(@, cur[s])]
        /\ pc' = [pc EXCEPT ![s] = "sel"]
        /\ UNCHANGED <<err, ctx, timer, conn>>
     \/ /\ loopReturn(s, "write")
        /\ UNCHANGED sent
  /\ UNCHANGED <<regVars, chanVars, mu, closed, c, cur, delCount, pubVars>>

\* the 60 minutes of context.WithTimeout pass
deadline(s) ==
  /\ ctx[s] = "live"
  /\ ctx' = [ctx EXCEPT ![s] = "done"]
  /\ UNCHANGED <<regVars, chanVars, mu, closed, c, conn, timer, pc, cur, err, sent,
                 delCount, pubVars>>

\* deferred: cs.deleteSubscriber(s); subscribe has returned
subscribeDelete(s) ==
  /\ pc[s] = "del"
  /\ deleteSubscriber(s)
  /\ delCount' = [delCount EXCEPT ![s] = @ + 1]
  /\ pc' = [pc EXCEPT ![s] = "closed"]
  /\ UNCHANGED <<tokens, chanVars, mu, closed, c, conn, ctx, timer, cur, err, sent,
                 pubVars>>

\* ---- listen / echo ------------------------------------------------------

\* an echo that publishes the frame without the call of HandleMsg
echoReadNoHandle(s) ==
  /\ tpc[LTask(s)] = "read"
  /\ conn[s] = "open"
  /\ ctx[s] = "live"
  /\ frames < MaxFrames
  /\ \E len \in FrameLens :
       tmsg' = [tmsg EXCEPT ![LTask(s)] =
                  [src |-> LTask(s), n |-> frames + 1, len |-> len]]
  /\ frames' = frames + 1
  /\ tpc' = [tpc EXCEPT ![LTask(s)] = "lock"]
  /\ UNCHANGED <<regVars, chanVars, sessVars, seen, snap, req, status, handled>>

\* l.Wait(ctx) returned nil (the bucket of l is the connection's own and refills
\* with time) and c.Reader(ctx), io.ReadAll(body) returned a frame;
\* cs.game.HandleMsg(r.RemoteAddr, msg)
echoRead(s) ==
  /\ tpc[LTask(s)] = "read"
  /\ conn[s] = "open"
  /\ ctx[s] = "live"
  /\ frames < MaxFrames
  /\ \E len \in FrameLens :
       LET m == [src |-> LTask(s), n |-> Len(handled[LTask(s)]) + 1, len |-> len] IN
       /\ tmsg' = [tmsg EXCEPT ![LTask(s)] = m]
       /\ handled' = [handled EXCEPT ![LTask(s)] =
                        Append(@, [usrid |-> LTask(s), msg |-> m])]
  /\ frames' = frames + 1
  /\ tpc' = [tpc EXCEPT ![LTask(s)] = "lock"]
  /\ UNCHANGED <<regVars, chanVars, sessVars, seen, snap, req, status>>

\* l.Wait(ctx) or c.Reader(ctx) fails because ctx is done or the transport is closed
echoReadClosed(s) ==
  /\ tpc[LTask(s)] = "read"
  /\ conn[s] # "open" \/ ctx[s] # "live"
  /\ tpc' = [tpc EXCEPT ![LTask(s)] = "done"]
  /\ UNCHANGED <<regVars, chanVars, sessVars, frames, tmsg, seen, snap, req, status,
                 handled>>

\* the peer ends the connection: a close frame with StatusNormalClosure (listen
\* returns nil), or any other close or read error (listen logs and returns the
\* error).  Either way listen returns, and the go statement drops what it returns.
echoReadPeer(s) ==
  /\ tpc[LTask(s)] = "read"
  /\ conn[s] = "open"
  /\ conn' = [conn EXCEPT ![s] = "closed"]
  /\ tpc' = [tpc EXCEPT ![LTask(s)] = "done"]
  /\ UNCHANGED <<regVars, chanVars, mu, closed, c, ctx, timer, pc, cur, err, sent,
                 delCount, frames, tmsg, seen, snap, req, status, handled>>

\* ---- the system ---------------------------------------------------------

Next ==
  \/ \E s \in Sess : subscribeStart(s)
  \/ \E s \in Sess : subscribeAdd(s)
  \/ \E s \in Sess : subscribeAccept(s)
  \/ \E s \in Sess : subscribeCheck(s)
  \/ \E s \in Sess : subscribeRecv(s)
  \/ \E s \in Sess : subscribeDone(s)
  \/ \E s \in Sess : writeTimeout(s)
  \/ \E s \in Sess : deadline(s)
  \/ \E s \in Sess : subscribeDelete(s)
  \/ \E s \in Sess : closeSlowLock(s)
  \/ \E s \in Sess : closeSlowClose(s)
  \/ \E s \in Sess : echoRead(s)
  \/ \E s \in Sess : echoReadClosed(s)
  \/ \E s \in Sess : echoReadPeer(s)
  \/ \E t \in Tasks : publishLock(t)
  \/ \E t \in Tasks : publishWait(t)
  \/ \E t \in Tasks, s \in Sess : publishSend(t, s)
  \/ \E t \in Tasks : publishUnlock(t)
  \/ publishRefill
  \/ \E r \in Reqs : publishHandler(r)
  \/ \E r \in Reqs : publishAccepted(r)

Spec == Init /\ [][Next]_vars

\* ---- fairness -----------------------------------------------------------

\* the steps of the goroutine that runs subscribe, once the connection arrived
subscribeStep(s) ==
  \/ subscribeAdd(s) \/ subscribeAccept(s) \/ subscribeCheck(s)
  \/ subscribeRecv(s) \/ subscribeDone(s) \/ writeTimeout(s) \/ subscribeDelete(s)

\* the steps of a goroutine that runs closeSlow
closeSlowStep(s) == closeSlowLock(s) \/ closeSlowClose(s)

\* the steps of publish in task t
publishStep(t) ==
  \/ publishLock(t) \/ publishWait(t) \/ publishUnlock(t)
  \/ \E s \in Sess : publishSend(t, s)

\* the steps that happen without anything from a peer: a goroutine goes on,
\* a blocking call of the library returns (Accept, Write within its 5 s,
\* Close, Reader on a closed transport), time passes (the deadline, the
\* refill of the bucket).  Connections, requests and frames are the peers'.
SessionNext ==
  \E s \in Sess :
    subscribeStep(s) \/ closeSlowStep(s) \/ deadline(s) \/ echoReadClosed(s)

PublishNext ==
  \/ publishRefill
  \/ \E t \in Tasks : publishStep(t)
  \/ \E r \in Reqs : publishAccepted(r)

\* The hub does not stop while one of these steps can be taken.  This is less
\* than the Go scheduler gives (every runnable goroutine runs), so what holds
\* under it holds under the scheduler's fairness.
FairSpec == Spec /\ WF_vars(SessionNext \/ PublishNext)

\* Only the publishers and the bucket go on: no session need take a step
PublishFairSpec == Spec /\ WF_vars(PublishNext)

\* ---- the session states of the specification ----------------------------

\* the handshake has not completed yet
Accepting(s) == pc[s] \in {"add", "accept", "chk"}

\* the handshake succeeded (c = c2 was assigned, the loops were started) and
\* the session is not yet torn down
Active(s) == c[s] /\ pc[s] # "closed"

\* subscribe has run addSubscriber and not yet its deferred deleteSubscriber
Registered(s) == pc[s] \in {"accept", "chk", "sel", "write", "del"}

\* publish holds subscribersMu
InPass(t) == tpc[t] \in {"limit", "iter"}

Range(q) == {q[i] : i \in DOMAIN q}

\* ---- C1 -----------------------------------------------------------------

Visits(t) == (DOMAIN seen'[t]) \ (DOMAIN seen[t])

\* the step gives s the payload m if its queue is not full, and else leaves
\* the queue alone and starts one closeSlow of s
Offered(s, m) ==
  IF Len(msgs[s]) < subscriberMessageBuffer
  THEN msgs'[s] = Append(msgs[s], m) /\ slow'[s] = slow[s]
  ELSE msgs'[s] = msgs[s] /\ slow'[s] = slow[s] + 1

\* C2: a broadcast pass works on one fixed snapshot of the Registry (the
\* Registry does not change while the pass holds the lock); each of its steps
\* visits one Subscriber of the snapshot not visited before, appends the
\* payload to its queue if the queue is not full and otherwise enqueues
\* nothing and triggers its force-close; the pass ends only when every
\* Subscriber of the snapshot was visited; and no queue grows and no
\* force-close is triggered except for the Subscriber a pass visits.
C2_BroadcastPass ==
  [][ /\ \A t \in Tasks :
           /\ InPass(t) => subscribers = snap[t] /\ subscribers' = snap[t]
           /\ InPass(t) => DOMAIN seen[t] \subseteq snap[t]
           /\ InPass(t) /\ Visits(t) # {} =>
                \E s \in snap[t] : Visits(t) = {s} /\ Offered(s, tmsg[t])
           /\ InPass(t) /\ ~InPass(t)' => DOMAIN seen[t] = snap[t]
      /\ \A s \in Sess :
           Len(msgs'[s]) > Len(msgs[s]) \/ slow'[s] > slow[s] =>
             \E t \in Tasks : InPass(t) /\ s \in Visits(t)
    ]_vars

\* a pass over a snapshot of two Subscribers has found one queue full and has
\* enqueued its payload on the other
C2_Witness ==
  \E t \in Tasks : \E s, u \in Sess :
    /\ tpc[t] = "iter"
    /\ snap[t] = {s, u} /\ s # u
    /\ DOMAIN seen[t] = {s, u}
    /\ seen[t][s] = subscriberMessageBuffer /\ slow[s] > 0
    /\ seen[t][u] < subscriberMessageBuffer /\ tmsg[t] \in Range(msgs[u])
    /\ tmsg[t] \notin Range(enqd[s])

\* ---- C3 -----------------------------------------------------------------

\* both loops of the session have stopped (or were never started)
LoopsStopped(s) ==
  /\ pc[s] \in {"del", "closed"}
  /\ tpc[LTask(s)] \in {"none", "done"}

\* C3: once a broadcast has found the queue of a Subscriber full (a closeSlow
\* of it was started), eventually the force-close has run, both loops of the
\* session have stopped and the Subscriber is out of the Registry, whether
\* the force-close ran before or after the handshake completed.
C3_EvictedIsRemoved ==
  \A s \in Sess :
    (slow[s] > 0) ~>
      (closed[s] /\ slow[s] = 0 /\ LoopsStopped(s) /\ pc[s] = "closed"
         /\ s \notin subscribers)

\* a session evicted before its handshake completed and one evicted when
\* Active: it was refused with net.ErrClosed, or its transport was closed
\* by closeSlow; it is torn down and out of the Registry
C3_Witness ==
  \E s \in Sess :
    /\ closed[s] /\ slow[s] = 0 /\ LoopsStopped(s) /\ pc[s] = "closed"
    /\ s \notin subscribers
    /\ err[s] \in {"netErrClosed", "write"}
    /\ Len(enqd[s]) = subscriberMessageBuffer

\* ---- C4 -----------------------------------------------------------------

\* C4: the passes of concurrent publishers are serialized by the Registry
\* lock: at most one task is inside a pass, and it is the holder of the lock;
\* and when a pass ends, every Subscriber of the Registry was offered the
\* payload of that pass, and every one whose queue had free capacity when the
\* pass reached it has had that payload enqueued: no such message is lost.
C4_PassesSerialized ==
  [][ /\ \A t, u \in Tasks : InPass(t)' /\ InPass(u)' => t = u
      /\ \A t \in Tasks : InPass(t)' <=> subscribersMu' = t
      /\ \A t \in Tasks :
           InPass(t) /\ ~InPass(t)' =>
             \A s \in subscribers :
               /\ s \in DOMAIN seen[t]
               /\ seen[t][s] < subscriberMessageBuffer =>
                    tmsg[t] \in Range(enqd[s])
    ]_vars

\* two publishers at once: one is inside its pass and has enqueued its payload,
\* the other is waiting for the lock; a queue already holds the payload of an
\* earlier pass
C4_Witness ==
  \E t, u \in Tasks : \E s \in Sess :
    /\ t # u
    /\ tpc[t] = "iter" /\ tpc[u] = "lock"
    /\ s \in DOMAIN seen[t] /\ tmsg[t] \in Range(msgs[s])

\* ---- C5 -----------------------------------------------------------------

\* C5: every call of broadcast that has started finishes its pass, whatever
\* the queues of the Subscribers hold and even if no session ever takes
\* another step; only the publishers run and the bucket of the global
\* limiter refills.  The limiter only delays the pass.
C5_BroadcastFinishes ==
  \A t \in Tasks : (tpc[t] = "lock") ~> (tpc[t] = AfterPublish(t))

\* a pass has finished although a Subscriber whose write loop has not even
\* started had a full queue: the payload was dropped for it, and a closeSlow
\* started
C5_Witness ==
  \E t \in Tasks : \E s \in Sess :
    /\ tpc[t] = AfterPublish(t) /\ tmsg[t] # NoMsg
    /\ s \in subscribers /\ pc[s] = "accept"
    /\ Len(msgs[s]) = subscriberMessageBuffer
    /\ tmsg[t] \notin Range(enqd[s])
    /\ slow[s] > 0
    /\ tokens = 0

\* ---- C6 -----------------------------------------------------------------

\* the session deadline has passed and subscribe has not yet seen it
Expired(s) == ctx[s] = "done" /\ timer[s] = "armed"

\* C6: no session stays Active forever, and a session whose deadline has
\* passed terminates: the write loop leaves (also when no payload arrives),
\* the teardown runs and the Subscriber is out of the Registry; and a session
\* that is torn down stays so and stays out of the Registry.
C6_DeadlineEnds ==
  /\ \A s \in Sess :
       (Active(s) \/ Expired(s)) ~> (pc[s] = "closed" /\ s \notin subscribers)
  /\ [][\A s \in Sess :
          pc[s] = "closed" => pc'[s] = "closed" /\ s \notin subscribers']_vars

\* a session that never got a payload has left at its deadline and is torn down
C6_Witness ==
  \E s \in Sess :
    /\ pc[s] = "closed" /\ err[s] = "deadline"
    /\ enqd[s] = <<>>
    /\ s \notin subscribers
    /\ timer[s] = "released" /\ conn[s] = "closed"

\* ---- C7 -----------------------------------------------------------------

\* the payloads publish has put on some queue
Enqueued == UNION {Range(enqd[s]) : s \in Sess}

\* C7, as stated: the outcome of a request to /publish is 405 if its method is
\* not POST, otherwise 413 if its body exceeds 8192 bytes, otherwise 202; with
\* 405 and 413 the handler was not called and nothing was broadcast; with 202
\* the handler was called and the pass has completed.
C7_PublishOutcome ==
  \A r \in Reqs :
    /\ status[r] # 0 =>
         status[r] = IF req[r].method # "POST" THEN 405
                     ELSE IF req[r].len > maxBodyBytes THEN 413
                     ELSE 202
    /\ status[r] \in {405, 413} =>
         /\ handled[HTask(r)] = <<>>
         /\ \A m \in Enqueued : m.src # HTask(r)
    /\ status[r] = 202 =>
         /\ Len(handled[HTask(r)]) = 1
         /\ ~InPass(HTask(r)) /\ tpc[HTask(r)] = "done"

\* ---- C8 -----------------------------------------------------------------

\* the session goroutines go on (the handshake returns, the write loop takes
\* what is on its queue, Write returns) and a closeSlow that holds mu goes on
\* to release it; the deadline need not pass
WriteFairSpec ==
  Spec /\ WF_vars(\E s \in Sess : subscribeStep(s) \/ closeSlowStep(s))

\* the payload of request r, when it is accepted
Body(r) == [src |-> HTask(r), n |-> 1, len |-> req[r].len]

\* C8: a payload accepted by /publish and enqueued for a session (the session
\* was registered at the pass and its queue was not full) is transmitted by
\* the write loop of that session, unless the session terminates first; and
\* what a write loop transmits for a request is the body of that request,
\* unchanged.
C8_PublishedIsTransmitted ==
  /\ \A s \in Sess : \A r \in Reqs :
       LET m == [src |-> HTask(r), n |-> 1, len |-> maxBodyBytes] IN
       (m \in Range(enqd[s])) ~> (m \in Range(sent[s]) \/ pc[s] \in {"del", "closed"})
  /\ [](\A s \in Sess : \A i \in DOMAIN sent[s] :
          \A r \in Reqs :
            sent[s][i].src = HTask(r) =>
              /\ status[r] \in {0, 202}
              /\ sent[s][i] = Body(r)
              /\ sent[s][i] \in Range(enqd[s]))

\* every session has transmitted the body of an accepted request
C8_Witness ==
  \E r \in Reqs :
    /\ status[r] = 202
    /\ \A s \in Sess : Body(r) \in Range(sent[s])

\* ---- C9 -----------------------------------------------------------------

\* C9: however a session ends, its Subscriber is unregistered exactly once, at
\* the end of the session: the call happens as subscribe returns, for a
\* Subscriber that is registered, and a session that has ended has had
\* exactly that one call.
C9_UnregisteredOnce ==
  [][\A s \in Sess :
       /\ delCount'[s] # delCount[s] =>
            /\ delCount[s] = 0 /\ delCount'[s] = 1
            /\ s \in subscribers /\ s \notin subscribers'
            /\ pc[s] # "closed" /\ pc'[s] = "closed"
       /\ pc'[s] = "closed" => delCount'[s] = 1 /\ err'[s] # "none"
       /\ pc'[s] # "closed" => delCount'[s] = 0
    ]_vars

\* a session refused because closeSlow ran before the handshake completed, and
\* a session that ended at its deadline: each was unregistered once
C9_Witness ==
  \E s, u \in Sess :
    /\ pc[s] = "closed" /\ err[s] = "netErrClosed" /\ delCount[s] = 1
    /\ pc[u] = "closed" /\ err[u] \in {"deadline", "write", "accept"}
    /\ delCount[u] = 1

\* ---- C10 ----------------------------------------------------------------

\* C10, as stated: a session whose handshake succeeded and that has reached
\* Closed has its transport closed and its deadline timer released, on every
\* path, the one where closeSlow ran before the handshake completed included.
C10_TeardownClosesTransport ==
  \A s \in Sess :
    pc[s] = "closed" /\ conn[s] # "none" =>
      conn[s] = "closed" /\ timer[s] # "armed" /\ s \notin subscribers

\* ---- C11 ----------------------------------------------------------------

\* closeSlow has run (closed is set) and the handshake has not completed
ClosedEarly(s) == closed[s] /\ pc[s] \in {"accept", "chk"}

IdleFairSpec ==
  Spec /\ WF_vars(\/ \E s \in Sess :
                       subscribeStep(s) \/ closeSlowStep(s) \/ echoReadClosed(s)
                  \/ PublishNext)

\* listen has returned
ReadLoopEnded(s) == tpc[LTask(s)] = "done"

\* C12, as stated: when the read loop of a session has ended, the write loop
\* is cancelled and the session goes on to its teardown because of that: the
\* Subscriber is unregistered without a later broadcast and without the
\* session deadline.
C12_ReadLoopEndEndsSession ==
  \A s \in Sess :
    ReadLoopEnded(s) ~> (pc[s] = "closed" /\ s \notin subscribers)

\* ---- C13 ----------------------------------------------------------------

\* C13: Closed is absorbing.  Once a session is torn down (subscribe has
\* returned and deleteSubscriber has run) it stays so, its Subscriber is
\* never in the Registry again, no broadcast puts a payload on its queue or
\* starts a force-close of it, nothing is transmitted on its connection, and
\* a closeSlow started earlier that runs only now changes neither the
\* transport nor what subscribe returned.
C13_ClosedIsAbsorbing ==
  [][\A s \in Sess :
       pc[s] = "closed" =>
         /\ pc'[s] = "closed"
         /\ s \notin subscribers /\ s \notin subscribers'
         /\ msgs'[s] = msgs[s] /\ enqd'[s] = enqd[s]
         /\ slow'[s] <= slow[s]
         /\ sent'[s] = sent[s]
         /\ conn'[s] = conn[s] /\ c'[s] = c[s]
         /\ err'[s] = err[s] /\ delCount'[s] = delCount[s]
         /\ \A t \in Tasks : s \notin DOMAIN seen'[t]
    ]_vars

\* a closeSlow started while the session was registered runs after the
\* teardown of a session that ended at its deadline, and a broadcast made
\* after the teardown has reached the other session only
C13_Witness ==
  \E s, u \in Sess :
    /\ pc[s] = "closed" /\ err[s] = "deadline"
    /\ mu[s] = "closeSlow"
    /\ \E m \in Range(enqd[u]) : m \notin Range(enqd[s])

\* ---- C14 ----------------------------------------------------------------

\* the task of a read loop is suspended: in l.Wait or c.Reader ("read"), or in
\* publishLimiter.Wait with an empty bucket, which echo reaches through publish
ReadLoopSuspended(s) ==
  \/ tpc[LTask(s)] = "read"
  \/ tpc[LTask(s)] = "limit" /\ tokens = 0

\* the write loop is suspended: in its select, or in c.Write.  The goroutine
\* of subscribe takes subscribersMu inside addSubscriber and deleteSubscriber
\* only, so it is never the holder between two steps.
WriteLoopSuspended(s) == pc[s] \in {"sel", "write"}

\* the pass of t has found a queue full and has started a closeSlow
HasDispatched(t) ==
  \E s \in DOMAIN seen[t] : seen[t][s] >= subscriberMessageBuffer

\* C14, as stated: the Registry lock is not held by a task that is suspended
\* in a blocking part of a read loop or of a write loop (the wait for a
\* limiter, for the next frame, for the queue or the deadline, the
\* transmit), and a task that has started a force-close callback does not
\* hold the Registry lock.
C14_NoLockWhileBlocked ==
  /\ \A s \in Sess : ReadLoopSuspended(s) => subscribersMu # LTask(s)
  /\ \A s \in Sess : WriteLoopSuspended(s) => subscribersMu # <<"subscribe", s>>
  /\ \A t \in Tasks : HasDispatched(t) => subscribersMu # t

\* ---- C15 ----------------------------------------------------------------

\* p is a prefix of q
IsPrefix(p, q) ==
  /\ Len(p) <= Len(q)
  /\ \A i \in DOMAIN p : p[i] = q[i]

\* what was enqueued for s and is neither transmitted nor dropped by a
\* failed write: the payload the write loop holds, then the queue
Pending(s) == (IF pc[s] = "write" THEN <<cur[s]>> ELSE <<>>) \o msgs[s]

EndsIn(s) ==
  \/ pc'[s] # pc[s] /\ pc'[s] \in {"del", "closed"}
  \/ mu'[s] # mu[s]

\* C16: the failure, the eviction and the teardown of a session touch that
\* session only.  A Subscriber leaves the Registry only in the teardown of its
\* own session and that step removes no other; a step of the end of one
\* session leaves the registration, the queue, the transport and the position
\* of every other session as they are; and a pass that has met a full queue
\* has still enqueued its payload for every other Subscriber of the pass
\* whose queue had room.
C16_FailureIsolation ==
  [][ /\ \A s \in Sess :
           s \in subscribers /\ s \notin subscribers' =>
             /\ pc[s] = "del" /\ pc'[s] = "closed"
             /\ subscribers' = subscribers \ {s}
      /\ \A s \in Sess :
           EndsIn(s) =>
             \A u \in Sess \ {s} :
               /\ (u \in subscribers') <=> (u \in subscribers)
               /\ msgs'[u] = msgs[u]
               /\ conn'[u] = conn[u] /\ ctx'[u] = ctx[u]
               /\ pc'[u] = pc[u] /\ closed'[u] = closed[u]
      /\ \A t \in Tasks :
           InPass(t) /\ ~InPass(t)' /\ HasDispatched(t) =>
             \A u \in snap[t] :
               seen[t][u] < subscriberMessageBuffer => tmsg[t] \in Range(msgs[u]) \cup Range(sent[u]) \cup {cur[u]}
    ]_vars

\* one session was evicted (its queue was full, closeSlow closed its
\* transport, its write failed) and is torn down, while the other is still
\* registered and Active and has been sent the payload of the pass that
\* evicted the first
C16_Witness ==
  \E s, u \in Sess :
    /\ s # u
    /\ pc[s] = "closed" /\ closed[s] /\ err[s] = "write"
    /\ u \in subscribers /\ Active(u) /\ pc[u] = "sel"
    /\ \E m \in Range(sent[u]) : m \notin Range(enqd[s])

\* ---- C17 ----------------------------------------------------------------

\* C17: at every reachable state the queue of each Subscriber holds between 0
\* and subscriberMessageBuffer payloads; a broadcast does not make a queue
\* exceed its capacity, also not the queue of a Subscriber that is registered
\* and whose write loop has not started.
C17_QueueWithinCapacity ==
  \A s \in Sess :
    /\ Len(msgs[s]) \in 0..subscriberMessageBuffer
    /\ Len(msgs[s]) <= Len(enqd[s])
    /\ \A t \in Tasks :
         s \in DOMAIN seen[t] => seen[t][s] \in 0..subscriberMessageBuffer

\* a Subscriber in its handshake has a full queue, and a later broadcast has
\* found it full: the payload was dropped and a closeSlow started
C17_Witness ==
  \E s \in Sess : \E t \in Tasks :
    /\ pc[s] = "accept"
    /\ Len(msgs[s]) = subscriberMessageBuffer
    /\ tpc[t] = "iter" /\ s \in DOMAIN seen[t]
    /\ seen[t][s] = subscriberMessageBuffer
    /\ tmsg[t] \notin Range(msgs[s])
    /\ slow[s] = 1

\* ---- C18 ----------------------------------------------------------------

\* t is in its call of publish
InPublish(t) == tpc[t] \in {"lock", "limit", "iter"}

Last(q) == q[Len(q)]

\* C18: on both ingress paths every accepted message causes one call of the
\* handler with the source and the payload of that message, and then one
\* broadcast pass of that payload.  A call of the handler is made by a task
\* outside publish, with the message the task has just read, and the task
\* then enters publish; a task enters publish only that way; inside publish
\* the payload does not change and the handler is not called; a task leaves
\* publish only at the end of its pass; and whatever a pass enqueues is the
\* payload of the last handler call of its task.
C18_HandledThenBroadcast ==
  [][ /\ \A t \in Tasks :
           /\ handled'[t] # handled[t] =>
                /\ handled'[t] = Append(handled[t], [usrid |-> t, msg |-> tmsg'[t]])
                /\ tmsg'[t].src = t /\ tmsg'[t].n = Len(handled'[t])
                /\ ~InPublish(t) /\ tpc'[t] = "lock"
           /\ ~InPublish(t) /\ InPublish(t)' =>
                tpc'[t] = "lock" /\ handled'[t] # handled[t]
           /\ InPublish(t) =>
                /\ tmsg'[t] = tmsg[t] /\ handled'[t] = handled[t]
                /\ tpc'[t] # tpc[t] =>
                     <<tpc[t], tpc'[t]>> \in
                       {<<"lock", "limit">>, <<"limit", "iter">>,
                        <<"iter", AfterPublish(t)>>}
      /\ \A r \in Reqs :
           handled'[HTask(r)] # handled[HTask(r)] =>
             /\ req'[r].method = "POST"
             /\ tmsg'[HTask(r)].len = req'[r].len
      /\ \A s \in Sess :
           enqd'[s] # enqd[s] =>
             \E t \in Tasks :
               /\ tpc[t] = "iter" /\ subscribersMu = t
               /\ handled[t] # <<>> /\ Last(handled[t]).msg = tmsg[t]
               /\ enqd'[s] = Append(enqd[s], tmsg[t])
    ]_vars

\* a frame of a connection and a request to /publish were each handled once
\* and then broadcast: both passes are over and both payloads were enqueued
C18_Witness ==
  \E s \in Sess : \E r \in Reqs :
    /\ Len(handled[LTask(s)]) = 1 /\ Len(handled[HTask(r)]) = 1
    /\ tpc[LTask(s)] = "read" /\ tpc[HTask(r)] = "done" /\ status[r] = 202
    /\ Last(handled[LTask(s)]).msg \in Enqueued
    /\ Last(handled[HTask(r)]).msg \in Enqueued

\* ---- C19 ----------------------------------------------------------------

\* the place of m in the payloads enqueued for s (0: not enqueued)
Pos(s, m) ==
  IF m \in Range(enqd[s])
  THEN CHOOSE i \in DOMAIN enqd[s] : enqd[s][i] = m
  ELSE 0

\* C19: two Subscribers that both had the payloads m1 and m2 enqueued had them
\* enqueued in the same order: there is no pair of Subscribers of which one
\* got m1 before m2 and the other m2 before m1.  (Every payload is enqueued
\* at most once for a Subscriber.)
C19_SameOrderEverywhere ==
  /\ \A s \in Sess : \A i, j \in DOMAIN enqd[s] :
       enqd[s][i] = enqd[s][j] => i = j
  /\ \A s, u \in Sess :
       \A m1, m2 \in Range(enqd[s]) \cap Range(enqd[u]) :
         Pos(s, m1) < Pos(s, m2) <=> Pos(u, m1) < Pos(u, m2)

\* two Subscribers have each had the payloads of two publishers enqueued
C19_Witness ==
  \E s, u \in Sess :
    /\ s # u
    /\ Len(enqd[s]) = 2 /\ Len(enqd[u]) = 2
    /\ enqd[s][1].src # enqd[s][2].src
    /\ enqd[s] = enqd[u]

\* ---- C20 ----------------------------------------------------------------

\* the goroutine of subscribe is about to take a lock: subscribersMu in
\* addSubscriber or deleteSubscriber, mu after the handshake
WantsLock(s) == pc[s] \in {"add", "chk", "del"}

\* C20: the hub does not deadlock on its locks.  A holder of the Registry
\* lock releases it (while it holds it, it waits for the limiter only, never
\* for mu), a closeSlow that holds mu releases it (it never waits for the
\* Registry lock), a closeSlow that was started runs, and a session that
\* waits for one of the two locks gets it: a pending register, test of closed
\* or unregister is performed.
C20_NoLockDeadlock ==
  /\ (subscribersMu # Free) ~> (subscribersMu = Free)
  /\ \A s \in Sess :
       (WantsLock(s) \/ mu[s] # "free" \/ slow[s] > 0)
         ~> (~WantsLock(s) /\ mu[s] = "free" /\ slow[s] = 0)

\* both locks are held and waited for at once: a pass holds the Registry lock
\* and has started a closeSlow, which holds mu of a session that has finished
\* its handshake and waits for mu; another session waits for the Registry
\* lock to register or to unregister
C20_Witness ==
  \E s, u \in Sess : \E t \in Tasks :
    /\ subscribersMu = t /\ tpc[t] = "iter" /\ HasDispatched(t)
    /\ mu[s] = "closeSlow" /\ pc[s] = "chk"
    /\ pc[u] \in {"add", "del"}

====
